---- MODULE Spec2Model ----
(***************************************************************************)
(* A model of label_reconciliations: Row.add and its suffix counters       *)
(* (row.py), PolygonField.reconcile (fields/polygon_field.py), the box     *)
(* reconciliation exercised by tests/fields/test_box_field.py, and the     *)
(* run pipeline of label_reconciliations/core.py + cli.py and of           *)
(* reconciler/reconcile_util.py + reconcile_cli.py.                        *)
(*                                                                         *)
(* Each part of the program has its own specification (SpecRow,            *)
(* SpecPolygon, SpecBox, Spec); the variables of the other parts stay at   *)
(* their idle values.                                                      *)
(***************************************************************************)
EXTENDS Integers, Sequences, FiniteSets, TLC

VARIABLES
    rows,       \* Row objects: row id -> [fields, suffixes]
    added,      \* history: row id -> the fields in the order Row.add stored them
    poly,       \* PolygonField.reconcile: its call, the heap it works on, its outcome
    box,        \* BoxField.reconcile: its call and its outcome
    args,       \* run: the argparse.Namespace (and how run is entered)
    pc,         \* run: the position in the pipeline
    locals,     \* run: the tables run holds and the value it returns
    disk,       \* run: the output files and the archive on disk
    hist        \* run: history of the steps taken and of the calls made

vars == <<rows, added, poly, box, args, pc, locals, disk, hist>>

\* An optional value: None is <<>>, a value x is <<x>>.
None == <<>>

Some(x) == <<x>>

\* The value of the parts of the program a specification does not run.
Idle == "idle"

(***************************************************************************)
(* row.py                                                                  *)
(***************************************************************************)

\* Total number of fields added over all rows of one run of the model.
MaxAdds == 3

\* The longest list handed to one Row.add call.
MaxList == 2

RowIds == {"row1", "row2"}

NameGroups == {"box", "text"}

FieldNames == {"a", "b"}

\* row.py:16-25
TaskField ==
    {"BoxField", "HighlightField", "LengthField", "MarkIndexField",
     "PolygonField", "PointField", "SelectField", "TextField"}

\* row.py:26
AnyField == {"NoOpField", "SameField"} \cup TaskField

\* The field classes the adds of the model draw from.
InputTypes == {"BoxField", "TextField", "NoOpField", "SameField"}

\* A field as the format adapter constructs it: the suffix is not stamped yet.
NewFields ==
    [type : InputTypes, name_group : NameGroups, field_name : FieldNames,
     suffix : {0}]

\* Row(): fields is an empty dict, suffixes a defaultdict(int).
EmptyRow ==
    [fields |-> <<>>, suffixes |-> [g \in NameGroups |-> 0]]

\* self.fields[field.field_name] = field
DictSet(d, k, v) ==
    [n \in (DOMAIN d) \cup {k} |-> IF n = k THEN v ELSE d[n]]

\* A slip: isinstance(field, AnyField), true of every field class.
IsAnyField(f) == f.type \in AnyField

\* isinstance(field, TaskField)
IsTaskField(f) == f.type \in TaskField

\* The largest number in a non-empty set of numbers.
Largest(S) == CHOOSE n \in S : \A m \in S : m <= n

\* A slip: the counters are one dict shared by all Rows, so the suffix
\* continues the count of the name_group in whichever Row is furthest.
StampedFromSharedCounter(row, f) ==
    IF IsTaskField(f)
    THEN [f EXCEPT !.suffix =
            Largest({row.suffixes[f.name_group]}
                    \cup {rows[r].suffixes[f.name_group] : r \in RowIds}) + 1]
    ELSE f

\* A slip: the suffix is stamped before the counter is incremented.
StampedBeforeIncrement(row, f) ==
    IF IsTaskField(f)
    THEN [f EXCEPT !.suffix = row.suffixes[f.name_group]]
    ELSE f

\* The field object as it is after one pass of the loop body of Row.add.
Stamped(row, f) ==
    IF IsTaskField(f)
    THEN [f EXCEPT !.suffix = row.suffixes[f.name_group] + 1]
    ELSE f

\* One pass of the loop body of Row.add.
AddOne(row, f) ==
    [fields   |-> DictSet(row.fields, f.field_name, Stamped(row, f)),
     suffixes |-> IF IsTaskField(f)
                  THEN [row.suffixes EXCEPT ![f.name_group] = @ + 1]
                  ELSE row.suffixes]

RECURSIVE AddAll(_, _)
AddAll(row, fs) ==
    IF fs = <<>> THEN row ELSE AddAll(AddOne(row, Head(fs)), Tail(fs))

RECURSIVE StampedAll(_, _)
StampedAll(row, fs) ==
    IF fs = <<>> THEN <<>>
    ELSE <<Stamped(row, Head(fs))>> \o StampedAll(AddOne(row, Head(fs)), Tail(fs))

\* Number of fields added so far, over all rows.
RECURSIVE TotalAddedIn(_)
TotalAddedIn(S) ==
    IF S = {} THEN 0
    ELSE LET r == CHOOSE x \in S : TRUE
         IN Len(added[r]) + TotalAddedIn(S \ {r})

TotalAdded == TotalAddedIn(RowIds)

\* Row.add(field) with a list of fields.
AddList(r) ==
    \E n \in 1..MaxList :
      /\ TotalAdded + n <= MaxAdds
      /\ \E fs \in [1..n -> NewFields] :
        /\ rows' = [rows EXCEPT ![r] = AddAll(@, fs)]
        /\ added' = [added EXCEPT ![r] = @ \o StampedAll(rows[r], fs)]
        /\ UNCHANGED <<poly, box, args, pc, locals, disk, hist>>

\* Row.add(field) with a single field: fields = [field].
AddSingle(r) ==
    \E f \in NewFields :
        /\ TotalAdded + 1 <= MaxAdds
        /\ rows' = [rows EXCEPT ![r] = AddAll(@, <<f>>)]
        /\ added' = [added EXCEPT ![r] = @ \o StampedAll(rows[r], <<f>>)]
        /\ UNCHANGED <<poly, box, args, pc, locals, disk, hist>>

InitRow ==
    /\ rows = [r \in RowIds |-> EmptyRow]
    /\ added = [r \in RowIds |-> <<>>]
    /\ poly = Idle /\ box = Idle
    /\ args = Idle /\ pc = Idle /\ locals = Idle /\ disk = Idle /\ hist = Idle

NextRow ==
    \/ \E r \in RowIds : AddSingle(r)
    \/ \E r \in RowIds : AddList(r)

SpecRow == InitRow /\ [][NextRow]_vars

\* The number of task fields of name_group g among the first i adds to row r.
Occurrence(r, g, i) ==
    Cardinality({j \in 1..i : /\ IsTaskField(added[r][j])
                              /\ added[r][j].name_group = g})

\* C1: in every Row, the k-th task field added with a name_group carries
\* suffix k (1, 2, 3, ... without gaps), and no two task fields stored in the
\* Row have the same (name_group, suffix).
SuffixCountsOccurrences ==
    \A r \in RowIds :
        /\ \A i \in 1..Len(added[r]) :
              IsTaskField(added[r][i]) =>
                added[r][i].suffix = Occurrence(r, added[r][i].name_group, i)
        /\ \A m, n \in DOMAIN rows[r].fields :
              (/\ m # n
               /\ IsTaskField(rows[r].fields[m])
               /\ IsTaskField(rows[r].fields[n])
               /\ rows[r].fields[m].name_group = rows[r].fields[n].name_group)
              => rows[r].fields[m].suffix # rows[r].fields[n].suffix

\* C1 witness: three task fields of one name_group were added to a Row, the
\* third was stamped 3, and the Row holds two of them under different names.
WitnessThirdOccurrence ==
    \E r \in RowIds :
        /\ Len(added[r]) = 3
        /\ \A i \in 1..3 :
              added[r][i].name_group = "box" /\ IsTaskField(added[r][i])
        /\ added[r][3].suffix = 3
        /\ Cardinality(DOMAIN rows[r].fields) = 2

(***************************************************************************)
(* fields/polygon_field.py                                                 *)
(*                                                                         *)
(* Fields, point lists and points are objects on a heap: poly.fields maps  *)
(* a field id to the field's attributes, where points is the id of a list, *)
(* poly.lists maps a list id to the ids of its points, and poly.points     *)
(* maps a point id to the point's coordinates.                             *)
(***************************************************************************)

\* The longest group handed to PolygonField.reconcile.
MaxGroup == 3

\* The most points a polygon of the model has.
MaxPoints == 2

\* The coordinates the points of the model draw from.
PointVals == {[x |-> 0, y |-> 0], [x |-> 3, y |-> 4]}

\* The x a later change writes into a point of the reconciled field.
Moved == 9

\* Flag.OK
FlagOK == "OK"

NoFlag == "NO_FLAG"

\* What a group entry may be: None, or a polygon given by its points.
PolygonShapes ==
    {None} \cup
    {Some(ps) : ps \in UNION {[1..m -> PointVals] : m \in 0..MaxPoints}}

GroupShapes == UNION {[1..n -> PolygonShapes] : n \in 0..MaxGroup}

\* The heap holding the fields of a group: the field at position i has id i,
\* its point list has id i, and its j-th point has id <<i, j>>.
GroupHeap(shape) ==
    LET present == {i \in 1..Len(shape) : shape[i] # None}
    IN [fields |-> [i \in present |->
                      [points |-> i, note |-> <<>>, flag |-> NoFlag]],
        lists  |-> [i \in present |->
                      [j \in 1..Len(shape[i][1]) |-> <<i, j>>]],
        points |-> [p \in UNION {{<<i, j>> : j \in 1..Len(shape[i][1])}
                                  : i \in present}
                      |-> shape[p[1]][1][p[2]]]]

\* The group argument: None where the row lacks the field, else the field.
GroupOf(shape) ==
    [i \in 1..Len(shape) |-> IF shape[i] = None THEN None ELSE Some(i)]

\* utils.P(word, count): the word in the number that agrees with count.
P(word, count) ==
    IF count = 1 THEN word
    ELSE IF word = "is" THEN "are" ELSE word \o "s"

\* use = [g for g in group if g is not None]
RECURSIVE NotNone(_)
NotNone(group) ==
    IF group = <<>> THEN <<>>
    ELSE (IF Head(group) # None THEN <<Head(group)>> ELSE <<>>)
         \o NotNone(Tail(group))

\* The f-string of PolygonField.reconcile, word by word.
PolygonNote(use, row_count) ==
    <<"There", P("is", Len(use)), Len(use), "of", row_count, "polygon",
      P("record", row_count)>>

\* An id no list of the heap has yet.
FreshList(heap) == Cardinality(DOMAIN heap.lists) + MaxGroup + 1

\* A slip: copy.copy instead of deepcopy, a new list of the same points.
ShallowCopy(heap, l) ==
    LET n == FreshList(heap)
    IN [heap |-> [heap EXCEPT !.lists = DictSet(@, n, heap.lists[l])],
        list |-> n]

\* copy.deepcopy of a list of points: a new list of new points.
DeepCopy(heap, l) ==
    LET n   == FreshList(heap)
        old == heap.lists[l]
        new == [j \in 1..Len(old) |-> <<n, j>>]
    IN [heap |-> [heap EXCEPT
                    !.lists  = DictSet(@, n, new),
                    !.points = [p \in (DOMAIN @) \cup {new[j] : j \in 1..Len(old)}
                                  |-> IF p \in DOMAIN @ THEN @[p]
                                      ELSE heap.points[old[p[2]]]]],
        list |-> n]

\* The id of the field PolygonField.reconcile constructs.
NewField == 0

\* cls.like(group, note=..., flag=..., points=...): a new field with these
\* attributes.
Like(heap, note, flag, points) ==
    [heap EXCEPT !.fields =
        DictSet(@, NewField, [points |-> points, note |-> note, flag |-> flag])]

\* PolygonField.reconcile(group, row_count): what it returns or raises, and
\* the heap it leaves.
Reconcile(group, row_count, heap) ==
    LET use == NotNone(group)
    IN IF use = <<>>
       THEN [status |-> "returned", value |-> None, heap |-> heap]
       ELSE IF group[1] = None
       THEN \* group[0].points: 'NoneType' object has no attribute 'points'
            [status |-> "raised", value |-> None, heap |-> heap]
       ELSE LET copy == DeepCopy(heap, heap.fields[group[1][1]].points)
            IN [status |-> "returned",
                value  |-> Some(NewField),
                heap   |-> Like(copy.heap, PolygonNote(use, row_count),
                                FlagOK, copy.list)]

\* The call PolygonField.reconcile(group, row_count).
PolygonReconcile ==
    /\ poly.status = "called"
    /\ LET r == Reconcile(poly.group, poly.row_count, poly.heap)
       IN poly' = [poly EXCEPT !.status = r.status, !.value = r.value,
                               !.heap = r.heap]
    /\ UNCHANGED <<rows, added, box, args, pc, locals, disk, hist>>

\* A later change to the reconciled field: one of its points is moved.
MovePoint ==
    /\ poly.status = "returned" /\ poly.value # None
    /\ poly.edits = 0
    /\ LET l == poly.heap.fields[poly.value[1]].points
       IN \E j \in 1..Len(poly.heap.lists[l]) :
            /\ poly.heap.points[poly.heap.lists[l][j]].x # Moved
            /\ poly' = [poly EXCEPT
                          !.heap.points[poly.heap.lists[l][j]].x = Moved,
                          !.edits = @ + 1]
    /\ UNCHANGED <<rows, added, box, args, pc, locals, disk, hist>>

\* A later change to the reconciled field: its first point is deleted.
DeletePoint ==
    /\ poly.status = "returned" /\ poly.value # None
    /\ poly.edits = 0
    /\ LET l == poly.heap.fields[poly.value[1]].points
       IN /\ poly.heap.lists[l] # <<>>
          /\ poly' = [poly EXCEPT !.heap.lists[l] = Tail(@), !.edits = @ + 1]
    /\ UNCHANGED <<rows, added, box, args, pc, locals, disk, hist>>

InitPolygon ==
    /\ \E shape \in GroupShapes, extra \in 0..1 :
         poly = [status    |-> "called",
                 group     |-> GroupOf(shape),
                 row_count |-> Len(shape) + extra,
                 shape     |-> shape,      \* history: the group as it was handed in
                 heap      |-> GroupHeap(shape),
                 value     |-> None,
                 edits     |-> 0]
    /\ rows = Idle /\ added = Idle /\ box = Idle
    /\ args = Idle /\ pc = Idle /\ locals = Idle /\ disk = Idle /\ hist = Idle

NextPolygon == PolygonReconcile \/ MovePoint \/ DeletePoint

SpecPolygon == InitPolygon /\ [][NextPolygon]_vars

\* The points of field f, by value.
PointsOf(heap, f) ==
    LET l == heap.lists[heap.fields[f].points]
    IN [j \in 1..Len(l) |-> heap.points[l[j]]]

\* The positions of the non-null entries of the group.
Present == {i \in 1..Len(poly.group) : poly.group[i] # None}

FirstPresent == CHOOSE i \in Present : \A j \in Present : i <= j

\* C2: for every group with a non-null entry, also when the first entry is
\* None, reconcile returns a field whose points are, in order, the points of
\* the first non-null entry.
ReturnsFirstNonNullPoints ==
    (poly.status # "called" /\ Present # {} /\ poly.edits = 0) =>
        /\ poly.status = "returned"
        /\ poly.value # None
        /\ PointsOf(poly.heap, poly.value[1]) = poly.shape[FirstPresent][1]

\* C3: reconcile returns None exactly when every entry of the group is None,
\* and returns a field as soon as one entry is not.
ReturnsNoneIffAllNone ==
    poly.status # "called" =>
        /\ poly.status = "returned"
        /\ (poly.value = None) <=> (Present = {})

\* The ids of the point lists and of the points of the input fields.
InputLists == {poly.heap.fields[i].points : i \in Present}

InputPoints ==
    UNION {{poly.heap.lists[l][j] : j \in 1..Len(poly.heap.lists[l])}
           : l \in InputLists}

\* C8: neither reconcile nor a later change to the field it returned changes
\* a field of the input group, and the returned field's point list shares no
\* list and no point with an input field.
InputGroupUntouched ==
    /\ \A i \in Present :
         /\ poly.heap.fields[i] = GroupHeap(poly.shape).fields[i]
         /\ poly.heap.lists[i] = GroupHeap(poly.shape).lists[i]
         /\ PointsOf(poly.heap, i) = poly.shape[i][1]
    /\ (poly.status = "returned" /\ poly.value # None) =>
         LET l == poly.heap.fields[poly.value[1]].points
         IN /\ l \notin InputLists
            /\ \A j \in 1..Len(poly.heap.lists[l]) :
                 poly.heap.lists[l][j] \notin InputPoints

\* C8 witness: reconcile returned a field copied from a polygon of two
\* points, and one point of the returned field was moved afterwards, while
\* the input polygon still has its two points where they were.
WitnessReturnedFieldChanged ==
    /\ poly.status = "returned" /\ poly.value # None
    /\ poly.edits > 0
    /\ Len(poly.shape[1][1]) = 2
    /\ Len(PointsOf(poly.heap, poly.value[1])) = 2
    /\ PointsOf(poly.heap, poly.value[1]) # poly.shape[1][1]
    /\ PointsOf(poly.heap, 1) = poly.shape[1][1]

(***************************************************************************)
(* fields/box_field.py, as section 4.1 and section 8 of the specification  *)
(* and tests/fields/test_box_field.py describe it.                         *)
(***************************************************************************)

Box(l, t, r, b) == [left |-> l, top |-> t, right |-> r, bottom |-> b]

\* The boxes the groups of the model draw from: the three boxes of
\* test_reconcile_01 and three more whose means fall between integers.
BoxPool ==
    {Box(0, 0, 30, 30), Box(10, 10, 40, 40), Box(20, 20, 50, 50),
     Box(1, 2, 4, 7), Box(2, 5, 7, 10), Box(-3, 1, 4, 8)}

BoxGroups == UNION {[1..n -> {None} \cup {Some(b) : b \in BoxPool}] : n \in 0..MaxGroup}

\* sum(b.<coordinate> for b in use)
RECURSIVE SumOf(_, _)
SumOf(use, coord) ==
    IF use = <<>> THEN 0 ELSE Head(use)[1][coord] + SumOf(Tail(use), coord)

\* A slip: int(mean) instead of round(mean), the quotient cut off towards zero.
Truncate(num, den) ==
    IF num >= 0 THEN num \div den ELSE -((-num) \div den)

\* round(num / den) for den > 0: the nearest integer, and the even one of the
\* two when num / den lies halfway between them.
Round(num, den) ==
    LET q == num \div den
        r == num % den
    IN IF 2 * r < den THEN q
       ELSE IF 2 * r > den THEN q + 1
       ELSE IF q % 2 = 0 THEN q ELSE q + 1

\* The note test_reconcile_01 expects, word by word.
BoxNote(use) ==
    <<"There", P("is", Len(use)), Len(use), "box", P("record", Len(use))>>

\* BoxField.reconcile(group, row_count): None without a non-null entry, else
\* the box of the rounded means of the corners.
BoxReconcileResult(group, row_count) ==
    LET use == NotNone(group)
        k   == Len(use)
    IN IF use = <<>> THEN None
       ELSE Some([note   |-> BoxNote(use),
                  flag   |-> FlagOK,
                  left   |-> Round(SumOf(use, "left"), k),
                  top    |-> Round(SumOf(use, "top"), k),
                  right  |-> Round(SumOf(use, "right"), k),
                  bottom |-> Round(SumOf(use, "bottom"), k)])

\* The call BoxField.reconcile(group, row_count=len(group)).
BoxReconcile ==
    /\ box.status = "called"
    /\ box' = [box EXCEPT !.status = "returned",
                          !.value = BoxReconcileResult(box.group, box.row_count)]
    /\ UNCHANGED <<rows, added, poly, args, pc, locals, disk, hist>>

InitBox ==
    /\ \E g \in BoxGroups :
         box = [status |-> "called", group |-> g, row_count |-> Len(g),
                value |-> None]
    /\ rows = Idle /\ added = Idle /\ poly = Idle
    /\ args = Idle /\ pc = Idle /\ locals = Idle /\ disk = Idle /\ hist = Idle

NextBox == BoxReconcile

SpecBox == InitBox /\ [][NextBox]_vars

Corners == {"left", "top", "right", "bottom"}

\* The positions of the non-null boxes of the group.
BoxesPresent == {i \in 1..Len(box.group) : box.group[i] # None}

RECURSIVE CornerSum(_, _)
CornerSum(S, c) ==
    IF S = {} THEN 0
    ELSE LET i == CHOOSE x \in S : TRUE
         IN box.group[i][1][c] + CornerSum(S \ {i}, c)

Abs(n) == IF n < 0 THEN -n ELSE n

\* C4: with k >= 1 non-null boxes, reconcile returns a box with flag OK whose
\* corners are each the integer nearest to the mean of that corner over the k
\* boxes (the even neighbour when the mean lies halfway), and with k = 1 the
\* corners of the single box.
BoxIsRoundedMean ==
    (box.status = "returned" /\ BoxesPresent # {}) =>
        LET k == Cardinality(BoxesPresent)
        IN /\ box.value # None
           /\ box.value[1].flag = FlagOK
           /\ \A c \in Corners :
                LET v    == box.value[1][c]
                    dist == Abs(k * v - CornerSum(BoxesPresent, c))
                IN /\ 2 * dist <= k
                   /\ (2 * dist = k) => (v % 2 = 0)
           /\ (k = 1) =>
                \A i \in BoxesPresent, c \in Corners :
                    box.value[1][c] = box.group[i][1][c]

\* C4 witness: the group and the result of test_reconcile_01.
WitnessTestReconcile01 ==
    /\ box.status = "returned"
    /\ box.group = <<Some(Box(0, 0, 30, 30)), Some(Box(10, 10, 40, 40)),
                     Some(Box(20, 20, 50, 50))>>
    /\ box.value = Some([note |-> <<"There", "are", 3, "box", "records">>,
                         flag |-> FlagOK,
                         left |-> 10, top |-> 10, right |-> 40, bottom |-> 40])

(***************************************************************************)
(* core.py and cli.py of label_reconciliations, reconcile_util.py and      *)
(* reconcile_cli.py of reconciler.                                         *)
(*                                                                         *)
(* args.impl says which of the two packages runs, args.entry how run is    *)
(* reached: from main (parse_args, then run), from run_on_dataframe, or by *)
(* a caller that hands run a Namespace of its own.                         *)
(***************************************************************************)

Impls == {"core", "util"}

Entries == {"cli", "df", "run"}

\* The thresholds the callers of the model pass.
Thresholds == {-1, 0, 100, 101}

\* The number of rows the format adapter finds in the input.
InputRows == {0, 2}

WorkflowIds == {None, Some(1234)}

Path(d, b) == [dir |-> d, base |-> b]

\* os.path.basename
basename(path) == path.base

\* The output arguments, in the order zip_outputs and zip_files go through them.
ArgFiles == <<"unreconciled", "reconciled", "summary">>

\* The path each output option is given when it is given.
PathFor ==
    [unreconciled |-> Path("out", "unreconciled.csv"),
     reconciled   |-> Path("out", "reconciled.csv"),
     summary      |-> Path("report", "summary.html"),
     zip          |-> Path("out", "outputs.zip"),
     zip_keep     |-> Path("out", "kept.zip")]

Optional(name) == {None, Some(PathFor[name])}

\* --fuzzy-ratio-threshold (default: 90)
DefaultRatio == 90

\* --fuzzy-set-threshold (default: 50)
DefaultSet == 50

\* Every Namespace a caller or parse_args can hand over.
Namespaces ==
    [impl : Impls, entry : Entries,
     unreconciled : Optional("unreconciled"),
     reconciled : Optional("reconciled"),
     summary : Optional("summary"),
     zip : Optional("zip"),
     zip_keep : Optional("zip_keep"),
     force_reconcile : BOOLEAN,
     fuzzy_ratio_threshold : Thresholds \cup {DefaultRatio},
     fuzzy_set_threshold : Thresholds \cup {DefaultSet},
     workflow_id : WorkflowIds]

NoOutputs(a) ==
    /\ a.unreconciled = None /\ a.reconciled = None /\ a.summary = None
    /\ a.zip = None /\ a.zip_keep = None

\* What args is when the model starts: the parsed command line before its
\* validation, the keyword arguments of run_on_dataframe, or the Namespace
\* a caller hands to run.
StartArgs ==
    {a \in Namespaces :
        \/ /\ a.entry = "cli"
           /\ ~a.force_reconcile
           /\ a.impl = "util" => a.zip_keep = None
           /\ a.fuzzy_ratio_threshold \in Thresholds
           /\ a.fuzzy_set_threshold \in Thresholds
        \/ /\ a.entry = "df"
           /\ ~a.force_reconcile
           /\ NoOutputs(a)
           /\ a.fuzzy_ratio_threshold \in Thresholds
           /\ a.fuzzy_set_threshold \in Thresholds
        \/ /\ a.entry = "run"
           /\ a.fuzzy_ratio_threshold = DefaultRatio
           /\ a.fuzzy_set_threshold = DefaultSet}

\* A slip: only the upper end is checked.
InRangeAbove(t) == ~(t > 100)

\* args.x < 0 or args.x > 100, negated
InRange(t) == ~(t < 0 \/ t > 100)

RatioMessage == <<"--fuzzy-ratio-threshold must be between 0 and 100.">>

SetMessage == <<"--fuzzy-set-threshold must be between 0 and 100.">>

\* f"Workflow {args.workflow_id} has no data."
NoDataMessage(a) == <<"Workflow", a.workflow_id, "has no data.">>

\* run_on_dataframe of core.py removes the temporary CSV in a finally block
\* when an exception or SystemExit passes through it.
Unwound(d) ==
    IF args.impl = "core" /\ args.entry = "df"
    THEN [d EXCEPT !.tmp = FALSE] ELSE d

\* utils.error_exit(message): the message is reported and the process exits.
ErrorExit(message) ==
    /\ pc' = "exit"
    /\ hist' = [hist EXCEPT !.error = Some(message)]
    /\ disk' = Unwound(disk)
    /\ UNCHANGED <<args, locals>>

\* An exception leaves the step that records its name in the history.
Raise(step) ==
    /\ pc' = "raised"
    /\ hist' = [hist EXCEPT !.failed = Some(step)]
    /\ disk' = Unwound(disk)
    /\ UNCHANGED <<args, locals>>

Step(name) == [hist EXCEPT !.steps = Append(@, name)]

\* The validations at the end of parse_args (cli.py, reconcile_cli.py);
\* main then calls run.
ParseArgs ==
    /\ pc = "parse_args"
    /\ IF ~InRange(args.fuzzy_ratio_threshold) THEN ErrorExit(RatioMessage)
       ELSE IF ~InRange(args.fuzzy_set_threshold) THEN ErrorExit(SetMessage)
       ELSE /\ pc' = "run"
            /\ UNCHANGED <<args, locals, disk, hist>>
    /\ UNCHANGED <<rows, added, poly, box>>

\* _materialize_dataframe_input, and the first lines of run_on_dataframe of
\* reconcile_util.py: the DataFrame is written to a temporary CSV.
MaterializeDataframe ==
    /\ pc = "materialize"
    /\ disk' = [disk EXCEPT !.tmp = TRUE]
    /\ pc' = "build_args"
    /\ UNCHANGED <<rows, added, poly, box, args, locals, hist>>

\* _build_args and _validate_args of core.py, the Namespace and the
\* validations of run_on_dataframe of reconcile_util.py.
BuildArgs ==
    /\ pc = "build_args"
    /\ LET built == [args EXCEPT !.force_reconcile = (args.impl = "core")]
       IN IF ~InRange(built.fuzzy_ratio_threshold)
          THEN ErrorExit(RatioMessage)
          ELSE IF ~InRange(built.fuzzy_set_threshold)
          THEN ErrorExit(SetMessage)
          ELSE /\ args' = built
               /\ pc' = "run"
               /\ UNCHANGED <<locals, disk, hist>>
    /\ UNCHANGED <<rows, added, poly, box>>

\* read_unreconciled / formats[args.format].read(args)
ReadUnreconciled ==
    /\ pc = "run"
    /\ \/ /\ locals' = [locals EXCEPT !.unreconciled =
                          Some([kind |-> "unreconciled", len |-> disk.input_rows])]
          /\ hist' = [Step("read") EXCEPT !.read = @ + 1]
          /\ pc' = "check_empty"
          /\ UNCHANGED <<args, disk>>
       \/ Raise("read")
    /\ UNCHANGED <<rows, added, poly, box>>

\* A slip: the comparison can never be true.
NeverEmpty(table) == table.len < 0

\* len(unreconciled) == 0
IsEmpty(table) == table.len = 0

\* if len(unreconciled) == 0: utils.error_exit(...)
CheckEmpty ==
    /\ pc = "check_empty"
    /\ IF IsEmpty(locals.unreconciled[1])
       THEN ErrorExit(NoDataMessage(args))
       ELSE /\ pc' = "write_unreconciled"
            /\ hist' = Step("check_empty")
            /\ UNCHANGED <<args, locals, disk>>
    /\ UNCHANGED <<rows, added, poly, box>>

\* Table.to_csv or summary.report writes the file of option name.
Written(name) ==
    /\ disk' = [disk EXCEPT !.files = @ \cup {args[name][1]}]
    /\ hist' = [Step("write_" \o name) EXCEPT !.written = @ \cup {name}]

\* write_unreconciled
WriteUnreconciled ==
    /\ pc = "write_unreconciled"
    /\ IF args.unreconciled # None
       THEN \/ /\ Written("unreconciled")
               /\ pc' = "reconcile"
               /\ UNCHANGED <<args, locals>>
            \/ Raise("write_unreconciled")
       ELSE /\ pc' = "reconcile"
            /\ UNCHANGED <<args, locals, disk, hist>>
    /\ UNCHANGED <<rows, added, poly, box>>

\* A slip: _force_reconcile is left out of needs_reconcile.
NeedsOutputsOnly(a) == a.reconciled # None \/ a.summary # None

\* A slip: run reconciles whatever is asked for.
NeedsAlways(a) == TRUE

\* needs_reconcile of core.py, the condition at reconcile_util.py:83
NeedsReconcile(a) ==
    IF a.impl = "core"
    THEN a.reconciled # None \/ a.summary # None \/ a.force_reconcile
    ELSE a.reconciled # None \/ a.summary # None

\* reconcile_data / unreconciled.reconcile(args)
ReconcileData ==
    /\ pc = "reconcile"
    /\ IF NeedsReconcile(args)
       THEN \/ /\ locals' = [locals EXCEPT !.reconciled =
                               Some([kind |-> "reconciled",
                                     len  |-> locals.unreconciled[1].len])]
               /\ hist' = [Step("reconcile") EXCEPT !.reconcile = @ + 1]
               /\ pc' = "write_reconciled"
               /\ UNCHANGED <<args, disk>>
            \/ \* Table.reconcile is invoked and raises
               /\ pc' = "raised"
               /\ hist' = [hist EXCEPT !.failed = Some("reconcile"),
                                       !.reconcile = @ + 1]
               /\ disk' = Unwound(disk)
               /\ UNCHANGED <<args, locals>>
       ELSE /\ pc' = "zip"
            /\ UNCHANGED <<args, locals, disk, hist>>
    /\ UNCHANGED <<rows, added, poly, box>>

\* A slip: the outputs are zipped right after the reconciled CSV, before the
\* summary is written.
WriteReconciledThenZip ==
    /\ pc = "write_reconciled"
    /\ IF args.reconciled # None
       THEN \/ /\ Written("reconciled")
               /\ pc' = "zip"
               /\ UNCHANGED <<args, locals>>
            \/ Raise("write_reconciled")
       ELSE /\ pc' = "zip"
            /\ UNCHANGED <<args, locals, disk, hist>>
    /\ UNCHANGED <<rows, added, poly, box>>

\* write_reconciled
WriteReconciled ==
    /\ pc = "write_reconciled"
    /\ IF args.reconciled # None
       THEN \/ /\ Written("reconciled")
               /\ pc' = "write_summary"
               /\ UNCHANGED <<args, locals>>
            \/ Raise("write_reconciled")
       ELSE /\ pc' = "write_summary"
            /\ UNCHANGED <<args, locals, disk, hist>>
    /\ UNCHANGED <<rows, added, poly, box>>

\* write_summary
WriteSummary ==
    /\ pc = "write_summary"
    /\ IF args.summary # None
       THEN \/ /\ Written("summary")
               /\ pc' = "zip"
               /\ UNCHANGED <<args, locals>>
            \/ Raise("write_summary")
       ELSE /\ pc' = "zip"
            /\ UNCHANGED <<args, locals, disk, hist>>
    /\ UNCHANGED <<rows, added, poly, box>>

\* getattr(args, "zip", None) or getattr(args, "zip_keep", None)
ZipArg(a) == IF a.zip # None THEN a.zip ELSE a.zip_keep

\* A slip: the originals are kept whatever the options are.
KeepAlways(a) == TRUE

\* A slip: the originals are kept only when --zip is not given as well.
KeepUnlessZip(a) == a.zip_keep # None /\ a.zip = None

\* keep_originals=bool(getattr(args, "zip_keep", None))
KeepOriginals(a) == a.zip_keep # None

\* members = [p for p in (unreconciled_path, reconciled_path, summary_path) if p]
\* and the arg_files with args_dict.get(arg_file): the names of the options.
Members(a) == SelectSeq(ArgFiles, LAMBDA name : a[name] # None)

Range(seq) == {seq[i] : i \in 1..Len(seq)}

\* The arcnames of the members that zippy.write puts into the archive.
Arcnames(a, names) == [i \in 1..Len(names) |-> basename(a[names[i]][1])]

\* if os.path.exists(path)
Existing(a, names, files) ==
    SelectSeq(names, LAMBDA name : a[name][1] \in files)

\* The with zipfile.ZipFile(...) block of zip_outputs (core.py) and of
\* zip_files (reconcile_util.py): the archive is written and closed.
ZipCreate ==
    /\ pc = "zip"
    /\ IF ZipArg(args) = None
       THEN /\ pc' = "return"
            /\ UNCHANGED <<args, locals, disk, hist>>
       ELSE IF args.impl = "core" /\ Members(args) = <<>>
       THEN /\ pc' = "return"
            /\ UNCHANGED <<args, locals, disk, hist>>
       ELSE \/ /\ args.impl = "util" =>
                    Existing(args, Members(args), disk.files) = Members(args)
               /\ disk' = [disk EXCEPT
                     !.files = @ \cup {ZipArg(args)[1]},
                     !.archive = Some(
                        [path    |-> ZipArg(args)[1],
                         members |-> Arcnames(args,
                                       Existing(args, Members(args), disk.files))])]
               /\ hist' = Step("archive")
               /\ pc' = "remove"
               /\ UNCHANGED <<args, locals>>
            \/ Raise("archive")
    /\ UNCHANGED <<rows, added, poly, box>>

\* The paths of the first k names.
PathsOf(a, names, k) == {a[names[i]][1] : i \in 1..k}

\* The removal loop of zip_outputs (core.py): os.remove of every member that
\* exists unless keep_originals; an OSError ends the run.
RemoveOriginalsCore ==
    /\ pc = "remove" /\ args.impl = "core"
    /\ IF KeepOriginals(args)
       THEN /\ pc' = "return"
            /\ UNCHANGED <<args, locals, disk, hist>>
       ELSE LET names == Existing(args, Members(args), disk.files)
            IN \E k \in 0..Len(names) :
                 /\ disk' = (IF k = Len(names) THEN [disk EXCEPT
                               !.files = @ \ PathsOf(args, names, k)]
                             ELSE Unwound([disk EXCEPT
                               !.files = @ \ PathsOf(args, names, k)]))
                 /\ hist' = [(IF k > 0 THEN Step("delete") ELSE hist) EXCEPT
                               !.failed = IF k = Len(names) THEN None
                                          ELSE Some("delete")]
                 /\ pc' = (IF k = Len(names) THEN "return" ELSE "raised")
                 /\ UNCHANGED <<args, locals>>
    /\ UNCHANGED <<rows, added, poly, box>>

\* The removal loop of zip_files (reconcile_util.py): os.remove of every
\* requested file, whatever the options; an OSError is passed over and the
\* file stays.
RemoveOriginalsUtil ==
    /\ pc = "remove" /\ args.impl = "util"
    /\ \E kept \in SUBSET Range(Members(args)) :
         /\ disk' = [disk EXCEPT !.files =
                       @ \ {args[name][1] : name \in Range(Members(args)) \ kept}]
         /\ hist' = [(IF kept # Range(Members(args)) THEN Step("delete") ELSE hist)
                        EXCEPT !.remove_failed = kept]
    /\ pc' = "return"
    /\ UNCHANGED <<rows, added, poly, box, args, locals>>

\* _table_to_dataframe
DataFrame(table) == [frame_of |-> table]

\* return {"unreconciled": unreconciled, "reconciled": reconciled}, and in
\* run_on_dataframe the conversion of both tables and the removal of the
\* temporary CSV.
Return ==
    /\ pc = "return"
    /\ locals' = [locals EXCEPT !.result =
         IF args.entry = "df"
         THEN Some([unreconciled |-> DataFrame(locals.unreconciled[1]),
                    reconciled   |-> IF locals.reconciled = None THEN None
                                     ELSE Some(DataFrame(locals.reconciled[1]))])
         ELSE Some([unreconciled |-> locals.unreconciled[1],
                    reconciled   |-> locals.reconciled])]
    /\ disk' = [disk EXCEPT !.tmp = FALSE]
    /\ pc' = "done"
    /\ UNCHANGED <<rows, added, poly, box, args, hist>>

Init ==
    /\ args \in StartArgs
    /\ pc = CASE args.entry = "cli" -> "parse_args"
              [] args.entry = "df"  -> "materialize"
              [] args.entry = "run" -> "run"
    /\ locals = [unreconciled |-> None, reconciled |-> None, result |-> None]
    /\ \E n \in InputRows :
         disk = [files |-> {}, archive |-> None, tmp |-> FALSE, input_rows |-> n]
    /\ hist = [steps |-> <<>>, read |-> 0, reconcile |-> 0, written |-> {},
               remove_failed |-> {}, error |-> None, failed |-> None]
    /\ rows = Idle /\ added = Idle /\ poly = Idle /\ box = Idle

Next ==
    \/ ParseArgs
    \/ MaterializeDataframe
    \/ BuildArgs
    \/ ReadUnreconciled
    \/ CheckEmpty
    \/ WriteUnreconciled
    \/ ReconcileData
    \/ WriteReconciled
    \/ WriteSummary
    \/ ZipCreate
    \/ RemoveOriginalsCore
    \/ RemoveOriginalsUtil
    \/ Return

Spec == Init /\ [][Next]_vars

\* The run has ended without returning.
Failed == pc \in {"exit", "raised"}

\* Nothing of the outputs is on disk and nothing was written.
NothingWritten ==
    hist.written = {} /\ disk.files = {} /\ disk.archive = None

\* C5: when the adapter returns a table of zero rows, run ends in the fatal
\* error that names the workflow id; no unreconciled file, reconciled file,
\* summary or archive is written and Table.reconcile is not invoked.
EmptyInputIsFatal ==
    (/\ locals.unreconciled # None
     /\ locals.unreconciled[1].len = 0
     /\ pc # "check_empty") =>
        /\ pc = "exit"
        /\ hist.error = Some(<<"Workflow", args.workflow_id, "has no data.">>)
        /\ NothingWritten
        /\ hist.reconcile = 0

\* C5 witness: run has exited on an empty table of workflow 1234 although
\* all three outputs and an archive were asked for.
WitnessEmptyInputExit ==
    /\ pc = "exit"
    /\ locals.unreconciled # None /\ locals.unreconciled[1].len = 0
    /\ args.workflow_id = Some(1234)
    /\ args.unreconciled # None /\ args.reconciled # None
    /\ args.summary # None /\ args.zip # None
    /\ hist.read = 1

\* C6: whenever run ends in a failure, at whatever step, no output file of
\* the run (unreconciled CSV, reconciled CSV, summary, archive) was written.
NoOutputOnFailure == Failed => NothingWritten

OutOfRange(t) == t < 0 \/ t > 100

BadThresholds ==
    OutOfRange(args.fuzzy_ratio_threshold) \/ OutOfRange(args.fuzzy_set_threshold)

\* C7: from the command line and from run_on_dataframe, a fuzzy threshold
\* below 0 or above 100 ends in the fatal error for that option before run
\* is entered: nothing is read, reconciled or written; thresholds within
\* 0..100, the ends included, are never rejected.
ThresholdsCheckedBeforeRun ==
    args.entry \in {"cli", "df"} =>
        IF BadThresholds
        THEN /\ pc \in {"parse_args", "materialize", "build_args", "exit"}
             /\ pc = "exit" =>
                  hist.error =
                    Some(IF OutOfRange(args.fuzzy_ratio_threshold)
                         THEN RatioMessage ELSE SetMessage)
             /\ hist.read = 0 /\ hist.reconcile = 0 /\ hist.steps = <<>>
             /\ locals.unreconciled = None
             /\ NothingWritten
        ELSE hist.error \notin {Some(RatioMessage), Some(SetMessage)}

\* C7 witness: run_on_dataframe of core.py has exited on a set threshold of
\* 101, the ratio threshold being 100.
WitnessThresholdRejected ==
    /\ pc = "exit"
    /\ args.entry = "df" /\ args.impl = "core"
    /\ args.fuzzy_ratio_threshold = 100
    /\ args.fuzzy_set_threshold = 101
    /\ hist.error = Some(SetMessage)

\* The archive holds the file of option name under its base name.
Archived(name) ==
    /\ disk.archive # None
    /\ basename(args[name][1]) \in Range(disk.archive[1].members)

ZipKeepKeepsOriginals ==
    (pc = "done" /\ args.impl = "core" /\ args.zip_keep # None) =>
        \A name \in hist.written :
            /\ Archived(name)
            /\ args[name][1] \in disk.files

\* C10 witness: core.run with --zip and --zip-keep is done, the archive
\* holds the three outputs and the three originals are still on disk.
WitnessZipKeepWithZip ==
    /\ pc = "done" /\ args.impl = "core"
    /\ args.zip_keep # None /\ args.zip # None
    /\ hist.written = {"unreconciled", "reconciled", "summary"}
    /\ Len(disk.archive[1].members) = 3
    /\ {PathFor.unreconciled, PathFor.reconciled, PathFor.summary}
         \subseteq disk.files

\* The thresholds pass the validation.
GoodThresholds == ~BadThresholds

\* C11: run_on_dataframe of core.py, given a non-empty DataFrame and valid
\* thresholds, invokes Table.reconcile once and not more, returns a
\* reconciled frame that is not None, and writes no unreconciled, reconciled,
\* summary or archive file.
DataframeRunReconcilesOnce ==
    (/\ args.impl = "core" /\ args.entry = "df"
     /\ disk.input_rows > 0 /\ GoodThresholds) =>
        /\ hist.reconcile <= 1
        /\ NothingWritten
        /\ pc \in {"write_reconciled", "write_summary", "zip", "return", "done"}
             => hist.reconcile = 1
        /\ pc = "done" =>
             /\ locals.result # None
             /\ locals.result[1].reconciled # None
             /\ locals.result[1].reconciled[1].frame_of.kind = "reconciled"

\* C11 witness: run_on_dataframe of core.py has returned both frames for a
\* DataFrame of two rows with the thresholds 0 and 100.
WitnessDataframeReconciled ==
    /\ pc = "done" /\ args.impl = "core" /\ args.entry = "df"
    /\ args.fuzzy_ratio_threshold = 0 /\ args.fuzzy_set_threshold = 100
    /\ disk.input_rows = 2
    /\ hist.reconcile = 1
    /\ locals.result[1].reconciled # None
    /\ ~disk.tmp

\* C12: run_on_dataframe of reconcile_util.py, given a non-empty DataFrame
\* and valid thresholds, invokes Table.reconcile on the unreconciled table
\* and returns the reconciled table's DataFrame as the second element.
UtilDataframeRunReconciles ==
    (/\ args.impl = "util" /\ args.entry = "df"
     /\ disk.input_rows > 0 /\ GoodThresholds
     /\ pc = "done") =>
        /\ hist.reconcile >= 1
        /\ locals.result[1].reconciled # None

\* The fields the step has added to row r, as they were stored.
JustAdded(r) == SubSeq(added'[r], Len(added[r]) + 1, Len(added'[r]))

\* C13: a Row.add of fields that are all NoOp or Same fields changes no
\* suffix counter of the Row and leaves the suffix of each field as it came
\* (0); it stores each field under its field_name and changes no other entry
\* of the Row.
NonTaskAddOnlyStores ==
    [][\A r \in RowIds :
         LET new   == JustAdded(r)
             names == {new[i].field_name : i \in 1..Len(new)}
         IN (new # <<>> /\ \A i \in 1..Len(new) : new[i].type \notin TaskField) =>
              /\ rows'[r].suffixes = rows[r].suffixes
              /\ \A i \in 1..Len(new) : new[i].suffix = 0
              /\ DOMAIN rows'[r].fields = DOMAIN rows[r].fields \cup names
              /\ \A n \in DOMAIN rows[r].fields \ names :
                   rows'[r].fields[n] = rows[r].fields[n]
              /\ \A n \in names :
                   /\ rows'[r].fields[n].field_name = n
                   /\ rows'[r].fields[n].suffix = 0
                   /\ rows'[r].fields[n].type \notin TaskField
                   /\ \E i \in 1..Len(new) : rows'[r].fields[n] = new[i]
      ]_vars

\* C13 witness: a Row holds a task field stamped 1 and, stored after it under
\* another name, a NoOp field of the same name_group with suffix 0, and the
\* counter of the name_group stands at 1.
WitnessNoOpAfterTask ==
    \E r \in RowIds :
        /\ Len(added[r]) = 2
        /\ added[r][1].type = "BoxField" /\ added[r][1].suffix = 1
        /\ added[r][2].type = "NoOpField" /\ added[r][2].suffix = 0
        /\ added[r][2].name_group = added[r][1].name_group
        /\ added[r][2].field_name # added[r][1].field_name
        /\ rows[r].suffixes[added[r][1].name_group] = 1
        /\ Cardinality(DOMAIN rows[r].fields) = 2

\* C14: the suffix counters belong to one Row: whatever the interleaving of
\* the adds, a step that adds nothing to a Row changes neither its fields nor
\* its counters, each counter of a Row is the number of task fields of that
\* name_group added to that Row, and the k-th of them has suffix k.
CountersBelongToOneRow ==
    [][\A r \in RowIds :
         /\ (added'[r] = added[r]) => (rows'[r] = rows[r])
         /\ \A g \in NameGroups :
              rows'[r].suffixes[g] =
                Cardinality({j \in 1..Len(added'[r]) :
                               /\ added'[r][j].type \in TaskField
                               /\ added'[r][j].name_group = g})
         /\ \A i \in 1..Len(JustAdded(r)) :
              JustAdded(r)[i].type \in TaskField =>
                JustAdded(r)[i].suffix =
                  Cardinality({j \in 1..(Len(added[r]) + i) :
                                 /\ added'[r][j].type \in TaskField
                                 /\ added'[r][j].name_group = JustAdded(r)[i].name_group})
      ]_vars

\* C14 witness: after two task fields of a name_group went to one Row, the
\* first task field of that name_group added to the other Row has suffix 1.
WitnessSecondRowStartsAtOne ==
    /\ Len(added["row1"]) = 2 /\ Len(added["row2"]) = 1
    /\ \A i \in 1..2 : added["row1"][i].type = "BoxField"
                       /\ added["row1"][i].name_group = "box"
    /\ added["row1"][2].suffix = 2
    /\ added["row2"][1].type = "BoxField"
    /\ added["row2"][1].name_group = "box"
    /\ added["row2"][1].suffix = 1
    /\ rows["row1"].suffixes["box"] = 2 /\ rows["row2"].suffixes["box"] = 1

\* C15: for every group with k >= 1 non-null entries among row_count rows,
\* reconcile returns a field with flag OK whose note says that there are k
\* of row_count polygon records.
NoteReportsParticipation ==
    (poly.status # "called" /\ Present # {}) =>
        /\ poly.status = "returned"
        /\ poly.value # None
        /\ poly.heap.fields[poly.value[1]].flag = FlagOK
        /\ LET note == poly.heap.fields[poly.value[1]].note
           IN /\ Len(note) = 7
              /\ note[3] = Cardinality(Present)
              /\ note[4] = "of"
              /\ note[5] = poly.row_count
              /\ note[6] = "polygon"

\* The steps of run in the order the claim gives them.
StepOrder ==
    <<"read", "check_empty", "write_unreconciled", "reconcile",
      "write_reconciled", "write_summary", "archive", "delete">>

Position(name) == CHOOSE i \in 1..Len(StepOrder) : StepOrder[i] = name

\* The output options that are given.
Requested == {name \in Range(ArgFiles) : args[name] # None}

\* C16: the steps a run of run has taken are in the order read, emptiness
\* check, write unreconciled, reconcile, write reconciled, write summary,
\* create archive, delete originals, none of them twice; reconciliation
\* comes after the read and the check, the archive is created only after
\* every requested output was written, and originals are deleted only after
\* the archive was closed.
StepsInOrder ==
    /\ \A i \in 1..Len(hist.steps) : hist.steps[i] \in Range(StepOrder)
    /\ \A i, j \in 1..Len(hist.steps) :
         i < j => Position(hist.steps[i]) < Position(hist.steps[j])
    /\ hist.steps # <<>> => hist.steps[1] = "read"
    /\ Len(hist.steps) >= 2 => hist.steps[2] = "check_empty"
    /\ "archive" \in Range(hist.steps) =>
         /\ Requested \subseteq hist.written
         /\ \A name \in Requested : ("write_" \o name) \in Range(hist.steps)
    /\ "delete" \in Range(hist.steps) =>
         /\ "archive" \in Range(hist.steps)
         /\ disk.archive # None
    /\ disk.archive # None => "archive" \in Range(hist.steps)
    /\ (\E name \in hist.written : args[name][1] \notin disk.files) =>
         "delete" \in Range(hist.steps)

\* C16 witness: a run with all three outputs and --zip is done after taking
\* all eight steps.
WitnessAllEightSteps ==
    /\ pc = "done"
    /\ hist.steps = StepOrder

\* A reconciled path or a summary path is given, or _force_reconcile is set.
ReconcileAskedFor ==
    args.reconciled # None \/ args.summary # None \/ args.force_reconcile

\* run is past the place where it reconciles.
PastReconcile ==
    pc \in {"write_reconciled", "write_summary", "zip", "remove", "return", "done"}

\* C17: core.run, entered from main or called with a Namespace (the result
\* of run_on_dataframe is the converted one), invokes Table.reconcile at most
\* once, and once it is past
\* that place it has done so exactly if a reconciled path or a summary path
\* is given or _force_reconcile is set; otherwise the 'reconciled' entry it
\* returns is None and neither a reconciled CSV nor a summary is written;
\* the 'unreconciled' entry is the table the adapter returned.
CoreRunReconcilesIffAskedFor ==
    (args.impl = "core" /\ args.entry # "df") =>
        /\ hist.reconcile <= 1
        /\ hist.reconcile = 1 => ReconcileAskedFor
        /\ PastReconcile => (hist.reconcile = 1 <=> ReconcileAskedFor)
        /\ ~ReconcileAskedFor =>
             /\ locals.reconciled = None
             /\ hist.written \subseteq {"unreconciled"}
             /\ pc = "done" => locals.result[1].reconciled = None
        /\ pc = "done" =>
             /\ locals.result[1].unreconciled =
                  [kind |-> "unreconciled", len |-> disk.input_rows]
             /\ ReconcileAskedFor =>
                  /\ locals.result[1].reconciled # None
                  /\ locals.result[1].reconciled[1].kind = "reconciled"

\* C17 witness: core.run is done with only --unreconciled given: the file is
\* written, nothing was reconciled and the 'reconciled' entry is None.
WitnessNothingToReconcile ==
    /\ pc = "done" /\ args.impl = "core" /\ args.entry = "run"
    /\ ~ReconcileAskedFor
    /\ hist.written = {"unreconciled"}
    /\ hist.reconcile = 0
    /\ locals.result[1].reconciled = None
    /\ locals.result[1].unreconciled.len = 2

====
